---- MODULE Spec2Model ----
(***************************************************************************)
(* A model of the file explorers of opfs-poc: the Origin Private File      *)
(* System explorer with storage buckets (src/src/components/               *)
(* OPFSFileSystem.tsx, second component of the file: variant "opfs"), its  *)
(* earlier revision that prefixes node paths with the root name            *)
(* (src/unnamed/part_002: variant "prefixed"), its first revision without  *)
(* buckets (first component of OPFSFileSystem.tsx: variant "legacy") and   *)
(* the File System Access explorer (src/src/components/                    *)
(* FileSystemAccessAPI.tsx: variant "fsapi").                              *)
(*                                                                         *)
(* A string is a sequence of tokens: a token is either the separator "/"   *)
(* or a non-empty run of characters without a separator (a name).  Two     *)
(* names are never adjacent.  The empty string is <<>>.                    *)
(*                                                                         *)
(* A directory tree of the storage substrate is a function from paths      *)
(* (sequences of entry names below the root of the tree) to entries.       *)
(* The enumeration order of a directory is not fixed by the substrate;     *)
(* the children of a tree node are kept as a set.                          *)
(***************************************************************************)
EXTENDS Integers, Sequences, FiniteSets, Bags, TLC

\* ------------------------------------------------------------------------
\* Bounds of the model
\* ------------------------------------------------------------------------

\* number of user actions that start an asynchronous handler in one run
MaxOps == 3

\* number of handlers of each kind the user starts in one run
MaxCreates == 1
MaxDeletes == 2
MaxOpens == 2
MaxSaves == 1
MaxBucketCreates == 1
MaxRefreshes == 1
MaxSelects == 1

\* number of handlers that may be suspended at the same time
MaxPending == 2

\* ------------------------------------------------------------------------
\* Strings and paths
\* ------------------------------------------------------------------------

Slash == "/"

\* the string made of one entry name ("" is the empty string)
Str(name) == IF name = "" THEN <<>> ELSE <<name>>

\* `${parentPath}/${name}`
Concat3(parentPath, name) == parentPath \o <<Slash>> \o Str(name)

\* index of the first separator of s, 0 when there is none
RECURSIVE IndexOfSlash(_, _)
IndexOfSlash(s, i) ==
  IF i > Len(s) THEN 0
  ELSE IF s[i] = Slash THEN i
  ELSE IndexOfSlash(s, i + 1)

\* the text of a separator-free string
Segment(s) == IF s = <<>> THEN "" ELSE s[1]

\* s.split("/"): the segments between separators; never empty,
\* "".split("/") is [""] and "a/".split("/") is ["a", ""]
RECURSIVE Split(_)
Split(s) ==
  LET i == IndexOfSlash(s, 1) IN
  IF i = 0 THEN <<Segment(s)>>
  ELSE <<Segment(SubSeq(s, 1, i - 1))>> \o Split(SubSeq(s, i + 1, Len(s)))

\* pathParts.pop(): the last element, and what is left of the array
Last(parts) == parts[Len(parts)]
Front(parts) == SubSeq(parts, 1, Len(parts) - 1)

\* pathParts.shift(): the first element, and what is left of the array
Head1(parts) == parts[1]
Rest(parts) == SubSeq(parts, 2, Len(parts))

\* the string naming the path of an entry below a root: names joined by "/"
RECURSIVE JoinPath(_)
JoinPath(p) ==
  IF p = <<>> THEN <<>>
  ELSE IF Len(p) = 1 THEN Str(p[1])
  ELSE Concat3(JoinPath(Front(p)), Last(p))

\* ------------------------------------------------------------------------
\* The storage substrate: directory trees
\* ------------------------------------------------------------------------

NoContent == "<none>"

DirEntry == [kind |-> "directory", content |-> NoContent]
FileEntry(c) == [kind |-> "file", content |-> c]

EmptyFS == [p \in {} |-> DirEntry]

IsPrefix(p, q) == Len(p) <= Len(q) /\ SubSeq(q, 1, Len(p)) = p

\* the directory dir exists in fs (the root of a tree always does)
DirExists(fs, dir) ==
  dir = <<>> \/ (dir \in DOMAIN fs /\ fs[dir].kind = "directory")

\* a name that holds a separator
SlashName == "<name with separator>"

\* names the substrate rejects with a TypeError
ValidName(name) == name \notin {"", ".", "..", SlashName}

FSPut(fs, p, e) == [q \in (DOMAIN fs) \cup {p} |-> IF q = p THEN e ELSE fs[q]]

FSRemove(fs, p) == [q \in {r \in DOMAIN fs : ~IsPrefix(p, r)} |-> fs[q]]

HasChildren(fs, p) == \E q \in DOMAIN fs : q # p /\ IsPrefix(p, q)

Ok(fs) == [err |-> "none", fs |-> fs]
Fail(fs, e) == [err |-> e, fs |-> fs]

\* dir.getDirectoryHandle(name, {create})
getDirectoryHandle(fs, dir, name, create) ==
  LET p == Append(dir, name) IN
  IF ~DirExists(fs, dir) THEN Fail(fs, "NotFoundError")
  ELSE IF ~ValidName(name) THEN Fail(fs, "TypeError")
  ELSE IF p \in DOMAIN fs
    THEN IF fs[p].kind = "directory" THEN Ok(fs)
         ELSE Fail(fs, "TypeMismatchError")
  ELSE IF create THEN Ok(FSPut(fs, p, DirEntry))
  ELSE Fail(fs, "NotFoundError")

\* dir.getFileHandle(name, {create}); a created file is empty
getFileHandle(fs, dir, name, create) ==
  LET p == Append(dir, name) IN
  IF ~DirExists(fs, dir) THEN Fail(fs, "NotFoundError")
  ELSE IF ~ValidName(name) THEN Fail(fs, "TypeError")
  ELSE IF p \in DOMAIN fs
    THEN IF fs[p].kind = "file" THEN Ok(fs)
         ELSE Fail(fs, "TypeMismatchError")
  ELSE IF create THEN Ok(FSPut(fs, p, FileEntry("")))
  ELSE Fail(fs, "NotFoundError")

\* dir.removeEntry(name, {recursive}); locked is the set of paths of the
\* tree that an open writable stream holds
removeEntry(fs, dir, name, recursive, locked) ==
  LET p == Append(dir, name) IN
  IF ~DirExists(fs, dir) THEN Fail(fs, "NotFoundError")
  ELSE IF ~ValidName(name) THEN Fail(fs, "TypeError")
  ELSE IF p \notin DOMAIN fs THEN Fail(fs, "NotFoundError")
  ELSE IF \E q \in locked : IsPrefix(p, q)
    THEN Fail(fs, "NoModificationAllowedError")
  ELSE IF HasChildren(fs, p) /\ ~recursive
    THEN Fail(fs, "InvalidModificationError")
  ELSE Ok(FSRemove(fs, p))

\* ------------------------------------------------------------------------
\* The storage substrate: roots
\* ------------------------------------------------------------------------

\* navigator.storage.getDirectory()
DefaultRoot == [loc |-> "root", name |-> ""]
\* (await navigator.storageBuckets.open(name)).getDirectory()
BucketRoot(n) == [loc |-> "bucket", name |-> n]
\* a directory of the user's disk, as yielded by the directory picker
LocalRoot(d) == [loc |-> "local", name |-> d]

NoRoot == [loc |-> "none", name |-> ""]

\* bucket names the substrate rejects with a TypeError: a name is made of
\* lower-case letters, digits, "-" and "_"
ValidBucketName(n) == n \notin {"", "Root"}

RootExists(st, r) ==
  CASE r.loc = "root" -> TRUE
    [] r.loc = "bucket" -> r.name \in DOMAIN st.buckets
    [] r.loc = "local" -> r.name \in DOMAIN st.local
    [] OTHER -> FALSE

FSOf(st, r) ==
  CASE r.loc = "root" -> st.root
    [] r.loc = "bucket" -> st.buckets[r.name].fs
    [] r.loc = "local" -> st.local[r.name]

SetFS(st, r, fs) ==
  CASE r.loc = "root" -> [st EXCEPT !.root = fs]
    [] r.loc = "bucket" -> [st EXCEPT !.buckets[r.name].fs = fs]
    [] r.loc = "local" -> [st EXCEPT !.local[r.name] = fs]

\* navigator.storageBuckets.open(name, options): opens the bucket, creating
\* it (empty, with the given options) when it does not exist
storageBucketsOpen(st, n, opts) ==
  IF ~ValidBucketName(n) THEN [err |-> "TypeError", st |-> st]
  ELSE IF n \in DOMAIN st.buckets THEN [err |-> "none", st |-> st]
  ELSE [err |-> "none",
        st |-> [st EXCEPT !.buckets =
                  [b \in (DOMAIN st.buckets) \cup {n} |->
                     IF b = n THEN [fs |-> EmptyFS, opts |-> opts]
                     ELSE st.buckets[b]]]]

\* navigator.storageBuckets.delete(name): resolves also when no bucket has
\* that name
storageBucketsDelete(st, n) ==
  IF ~ValidBucketName(n) THEN [err |-> "TypeError", st |-> st]
  ELSE [err |-> "none",
        st |-> [st EXCEPT !.buckets =
                  [b \in (DOMAIN st.buckets) \ {n} |-> st.buckets[b]]]]

\* navigator.storageBuckets.keys()
storageBucketsKeys(st) == DOMAIN st.buckets

\* the options createBucket passes to open
DefaultOptions == [durability |-> "strict", expires |-> "undefined",
                   quota |-> "undefined"]

\* ------------------------------------------------------------------------
\* Tree Builder
\* ------------------------------------------------------------------------

NoLocation == "<none>"

ChildNames(fs, dir) ==
  {p[Len(p)] : p \in {q \in DOMAIN fs : Len(q) = Len(dir) + 1 /\ IsPrefix(dir, q)}}

FileNode(fullPath, location) ==
  IF location = NoLocation THEN [name |-> fullPath, kind |-> "file"]
  ELSE [name |-> fullPath, kind |-> "file", location |-> location]

DirNode(fullPath, kind, location, children) ==
  IF location = NoLocation
    THEN [name |-> fullPath, kind |-> kind, children |-> children]
    ELSE [name |-> fullPath, kind |-> kind, location |-> location,
          children |-> children]

\* a tree builder that stops at the first level: a directory node gets no
\* subtree
fetchDirectoryContentsShallow(fs, dir, parentPath, location) ==
  { LET fullPath == IF parentPath # <<>> THEN Concat3(parentPath, name)
                    ELSE Str(name)
    IN IF fs[Append(dir, name)].kind = "directory"
         THEN DirNode(fullPath, "directory", location, {})
         ELSE FileNode(fullPath, location)
    : name \in ChildNames(fs, dir) }

\* fetchDirectoryContents(directoryHandle, parentPath, location): one node
\* per entry of the directory, a directory node holding its subtree
RECURSIVE fetchDirectoryContents(_, _, _, _)
fetchDirectoryContents(fs, dir, parentPath, location) ==
  { LET fullPath == IF parentPath # <<>> THEN Concat3(parentPath, name)
                    ELSE Str(name)
    IN IF fs[Append(dir, name)].kind = "directory"
         THEN DirNode(fullPath, "directory", location,
                fetchDirectoryContents(fs, Append(dir, name), fullPath, location))
         ELSE FileNode(fullPath, location)
    : name \in ChildNames(fs, dir) }

\* every node of a forest, at any depth
RECURSIVE AllNodes(_)
AllNodes(nodes) ==
  nodes \cup UNION { IF n.kind = "file" THEN {} ELSE AllNodes(n.children)
                     : n \in nodes }

\* ------------------------------------------------------------------------
\* State
\* ------------------------------------------------------------------------

VARIABLES
  variant,          \* which explorer is mounted: one of Variants
  storage,          \* the substrate: default root, buckets, local directories
  idb,              \* the handle stored under the key "directoryHandle"
  permission,       \* what queryPermission() of the stored handle answers
  fileSystem,       \* useState: the displayed forest
  selectedFile,     \* useState: the node of the open file, or NoNode
  fileContent,      \* useState: the text of the editor
  message,          \* useState: the status line
  buckets,          \* useState: the bucket names the component knows
  modalOpen,        \* useState: the action of the open create form, or NoModal
  directoryHandle,  \* useState: the active local directory, or NoRoot
  tasks,            \* the suspended asynchronous handlers
  issued            \* number of handlers of each kind the user has started

vars == <<variant, storage, idb, permission, fileSystem, selectedFile,
          fileContent, message, buckets, modalOpen, directoryHandle, tasks,
          issued>>

NoNode == [kind |-> "none"]
NoModal == "<closed>"
Msg(text, arg, t) == [text |-> text, arg |-> arg, by |-> t]
\* setMessage(`Errore: ${error.message}`); the message of an error is kept
\* as the name of the error
ErrMsg(err, t) == Msg("Errore", <<err>>, t)

\* the status line is a message of a catch block
IsError(m) == m.text \in {"Errore", "Error", "Error deleting file",
                          "Error deleting directory"}

\* a handler that is not running.  origin is not a value of the program: it
\* is the root the user addressed, that is the root under which the clicked
\* node is displayed or the root the create form names
NoTask ==
  [op |-> "none", pc |-> "", path |-> <<>>, kind |-> "", location |-> "",
   action |-> "", content |-> NoContent,
   root |-> NoRoot, cur |-> <<>>, inter |-> <<>>, final |-> "",
   rootContent |-> {}, keys |-> {}, buffer |-> NoContent,
   opts |-> DefaultOptions, origin |-> NoRoot]

\* useState<string | null>(null).  by is not a value of the program: it is
\* the handler that set the status line, as it was when it set it
NoMessage == Msg("<null>", <<>>, NoTask)

\* the handlers that are suspended
Pending == BagToSet(tasks)
Idle == Pending = {}

\* handler t goes on as t2; NoTask when it has returned
Replace(t, t2) ==
  IF t2.op = "none" THEN tasks (-) SetToBag({t})
  ELSE (tasks (-) SetToBag({t})) (+) SetToBag({t2})

Kinds == {"create", "delete", "open", "save", "createBucket", "load", "select"}

MaxOf(kind) ==
  CASE kind = "create" -> MaxCreates
    [] kind = "delete" -> MaxDeletes
    [] kind = "open" -> MaxOpens
    [] kind = "save" -> MaxSaves
    [] kind = "createBucket" -> MaxBucketCreates
    [] kind = "load" -> MaxRefreshes
    [] kind = "select" -> MaxSelects

RECURSIVE SumOver(_, _)
SumOver(f, ks) ==
  IF ks = {} THEN 0
  ELSE LET k == CHOOSE x \in ks : TRUE IN f[k] + SumOver(f, ks \ {k})

Total == SumOver(issued, Kinds)

\* the user may start one more handler of this kind
MayStart(kind) == Total < MaxOps /\ issued[kind] < MaxOf(kind)

\* the create form is an overlay that covers the page: while it is open the
\* buttons of the page cannot be clicked
PageReachable == modalOpen = NoModal

\* the user starts a handler: it runs up to its first await
Start(t, kind) ==
  /\ MayStart(kind)
  /\ BagCardinality(tasks) < MaxPending
  /\ tasks' = tasks (+) SetToBag({t})
  /\ issued' = [issued EXCEPT ![kind] = @ + 1]

\* the text of a status line: the first revision speaks English
Say(it, en) == IF variant = "legacy" THEN en ELSE it

LoadTask == [NoTask EXCEPT !.op = "load", !.pc = "loadRoot"]

\* ------------------------------------------------------------------------
\* Initial states
\* ------------------------------------------------------------------------

Variants == {"opfs", "prefixed", "legacy", "fsapi"}

\* the explorers of the origin private file system
OPFSVariants == {"opfs", "prefixed", "legacy"}
\* the explorers that know storage buckets
BucketVariants == {"opfs", "prefixed"}

\* a tree with a directory a holding a file a/b
Populated ==
  (<<"a">> :> DirEntry) @@ (<<"a", "b">> :> FileEntry("old"))

NoBuckets == [b \in {} |-> [fs |-> EmptyFS, opts |-> DefaultOptions]]

\* what earlier sessions may have left in the substrate
InitialStorages ==
  { [root |-> EmptyFS, buckets |-> NoBuckets, local |-> [d \in {"d1"} |-> EmptyFS]],
    [root |-> Populated,
     buckets |-> [b \in {"b1"} |-> [fs |-> Populated, opts |-> DefaultOptions]],
     local |-> [d \in {"d1"} |-> Populated]] }

\* storedHandle.queryPermission() that rejects
QueryRejects == "<rejects>"

\* what queryPermission() of a stored handle may answer
Permissions == {"granted", "prompt", QueryRejects}

\* a directory that was removed from the disk after its handle was stored
RemovedDir == "d0"

\* what an earlier session may have left under the key "directoryHandle"
StoredHandles == {NoRoot, LocalRoot("d1"), LocalRoot(RemovedDir)}

\* the handler the mount effect starts
MountTask(v) ==
  IF v = "fsapi" THEN [NoTask EXCEPT !.op = "restore", !.pc = "get"]
  ELSE LoadTask

Init ==
  /\ variant \in Variants
  /\ storage \in InitialStorages
  /\ idb \in IF variant = "fsapi" THEN StoredHandles ELSE {NoRoot}
  /\ permission \in IF idb = NoRoot THEN {"prompt"} ELSE Permissions
  /\ fileSystem = {}
  /\ selectedFile = NoNode
  /\ fileContent = ""
  /\ message = NoMessage
  /\ buckets = {}
  /\ modalOpen = NoModal
  /\ directoryHandle = NoRoot
  /\ tasks = SetToBag({MountTask(variant)})
  /\ issued = [k \in Kinds |-> 0]

\* ------------------------------------------------------------------------
\* loadFileSystem
\* ------------------------------------------------------------------------

\* the parentPath and location loadFileSystem builds the default root with
RootParentPath == IF variant = "prefixed" THEN <<"root">> ELSE <<>>
RootLocation == IF variant = "opfs" THEN "root" ELSE NoLocation
BucketParentPath(b) == IF variant = "prefixed" THEN <<b>> ELSE <<>>
BucketLocation == IF variant = "opfs" THEN "bucket" ELSE NoLocation
RootNodeName == IF variant = "prefixed" THEN <<"root">> ELSE <<"Root">>

\* const rootHandle = await navigator.storage.getDirectory();
\* const rootContent = await fetchDirectoryContents(rootHandle, ...)
LoadRoot(t) ==
  /\ variant \in BucketVariants
  /\ t.op = "load" /\ t.pc = "loadRoot"
  /\ tasks' = Replace(t, [t EXCEPT !.pc = "loadKeys",
                 !.rootContent =
                    fetchDirectoryContents(storage.root, <<>>, RootParentPath,
                                           RootLocation)])
  /\ UNCHANGED <<variant, storage, idb, permission, fileSystem, selectedFile,
                 fileContent, message, buckets, modalOpen, directoryHandle,
                 issued>>

\* loadFileSystem of the first revision: the default root only
\* const rootContent = await fetchDirectoryContents(rootHandle);
\* setFileSystem([{name: "Root", ...}]); setMessage
LoadLegacy(t) ==
  /\ variant = "legacy"
  /\ t.op = "load" /\ t.pc = "loadRoot"
  /\ fileSystem' =
       {DirNode(RootNodeName, "directory", NoLocation,
                fetchDirectoryContents(storage.root, <<>>, <<>>, NoLocation))}
  /\ message' = Msg("File system loaded successfully!", <<>>, t)
  /\ tasks' = Replace(t, NoTask)
  /\ UNCHANGED <<variant, storage, idb, permission, selectedFile, fileContent,
                 buckets, modalOpen, directoryHandle, issued>>

\* const existingBuckets = await navigator.storageBuckets.keys();
LoadKeys(t) ==
  /\ t.op = "load" /\ t.pc = "loadKeys"
  /\ tasks' = Replace(t, [t EXCEPT !.pc = "loadOpen",
                 !.keys = storageBucketsKeys(storage)])
  /\ UNCHANGED <<variant, storage, idb, permission, fileSystem, selectedFile,
                 fileContent, message, buckets, modalOpen, directoryHandle,
                 issued>>

\* the storage after fetchBucketContents has opened every bucket of keys
RECURSIVE OpenAll(_, _)
OpenAll(st, keys) ==
  IF keys = {} THEN st
  ELSE LET b == CHOOSE k \in keys : TRUE
       IN OpenAll(storageBucketsOpen(st, b, DefaultOptions).st, keys \ {b})

\* existingBuckets.map(fetchBucketContents) up to the first await of each
\* call: const bucketHandle = await navigator.storageBuckets.open(bucketName)
LoadOpen(t) ==
  /\ t.op = "load" /\ t.pc = "loadOpen"
  /\ storage' = OpenAll(storage, t.keys)
  /\ tasks' = Replace(t, [t EXCEPT !.pc = "loadBuckets"])
  /\ UNCHANGED <<variant, idb, permission, fileSystem, selectedFile,
                 fileContent, message, buckets, modalOpen, directoryHandle,
                 issued>>

\* fetchBucketContents(bucketName) after its open: the nodes of the bucket,
\* [] when open has rejected the name or when the bucket was removed since
\* it was opened, which makes getDirectory() reject
fetchBucketContents(st, b) ==
  IF ~ValidBucketName(b) \/ b \notin DOMAIN st.buckets THEN {}
  ELSE fetchDirectoryContents(st.buckets[b].fs, <<>>, BucketParentPath(b),
                              BucketLocation)

\* a load that shows a bucket as a plain directory
BucketNodeAsDirectory(b, children) ==
  DirNode(<<b>>, "directory", BucketLocation, children)

\* { name: bucketName, kind: "bucket", location: "bucket", children }
BucketNode(b, children) ==
  DirNode(<<b>>, "bucket", BucketLocation, children)

\* await Promise.all(existingBuckets.map(fetchBucketContents));
\* setBuckets, setFileSystem, setMessage
LoadBuckets(t) ==
  /\ t.op = "load" /\ t.pc = "loadBuckets"
  /\ buckets' = t.keys
  /\ fileSystem' =
       {DirNode(RootNodeName, "directory", RootLocation, t.rootContent)}
       \cup {BucketNode(b, fetchBucketContents(storage, b)) : b \in t.keys}
  /\ message' = Msg("File system caricato con successo!", <<>>, t)
  /\ tasks' = Replace(t, NoTask)
  /\ UNCHANGED <<variant, storage, idb, permission, selectedFile, fileContent,
                 modalOpen, directoryHandle, issued>>

\* the Aggiorna button
Refresh ==
  /\ variant \in OPFSVariants
  /\ PageReachable
  /\ Start(LoadTask, "load")
  /\ UNCHANGED <<variant, storage, idb, permission, fileSystem, selectedFile,
                 fileContent, message, buckets, modalOpen, directoryHandle>>

\* ------------------------------------------------------------------------
\* Path Resolver: the root and the segments a handler walks
\* ------------------------------------------------------------------------

\* pathParts.pop() of an empty array is undefined, which the substrate
\* reads as the name "undefined"
PopName(parts) == IF parts = <<>> THEN "undefined" ELSE Last(parts)
PopRest(parts) == IF parts = <<>> THEN <<>> ELSE Front(parts)

\* the root a handler of the OPFS explorers opens and the segments it walks
\* below it, from its path and its location argument
RootChoice(t) ==
  IF variant = "legacy"
    THEN \* const rootHandle = await navigator.storage.getDirectory();
         \* handleFileSave passes the whole path as the name of the file
         [isBucket |-> FALSE, bucket |-> "",
          parts |-> IF t.op = "save" /\ Len(Split(t.path)) > 1
                      THEN <<SlashName>>
                    ELSE IF t.op = "save" THEN <<Segment(t.path)>>
                    ELSE Split(t.path)]
  ELSE IF variant = "opfs"
    THEN \* location === "bucket" ? storageBuckets.open(path.split("/")[0])
         \*                       : navigator.storage.getDirectory()
         [isBucket |-> t.location = "bucket",
          bucket |-> Split(t.path)[1],
          parts |-> Split(t.path)]
  ELSE IF t.op = "create"
    THEN \* handleModalAction(input, bucketOrRoot)
         [isBucket |-> t.location # "root",
          bucket |-> t.location,
          parts |-> Split(t.path)]
    ELSE \* const bucketOrRoot = pathParts.shift()
         [isBucket |-> Head1(Split(t.path)) # "root",
          bucket |-> Head1(Split(t.path)),
          parts |-> Rest(Split(t.path))]

\* catch (error) { setMessage(`Errore: ${error.message}`) }
\* finally { setModalOpen(null) }   (handleModalAction, handleAction)
Catch(t, err) ==
  /\ message' = IF variant # "legacy" THEN ErrMsg(err, t)
                ELSE \* setMessage(`Error: ${error.message}`),
                     \* setMessage(`Error deleting ${kind}: ${error.message}`)
                     Msg(IF t.op # "delete" THEN "Error"
                         ELSE IF t.kind = "directory"
                           THEN "Error deleting directory"
                         ELSE "Error deleting file", <<err>>, t)
  /\ modalOpen' = IF t.op = "create" THEN NoModal ELSE modalOpen
  /\ tasks' = Replace(t, NoTask)

PathOps == {"create", "delete", "open", "save"}

\* the await that yields rootHandle
OpenRoot(t) ==
  /\ t.op \in PathOps /\ t.pc = "openRoot"
  /\ LET c == RootChoice(t)
         r == IF c.isBucket
                THEN storageBucketsOpen(storage, c.bucket, DefaultOptions)
                ELSE [err |-> "none", st |-> storage]
     IN /\ storage' = r.st
        /\ IF r.err # "none" THEN Catch(t, r.err)
           ELSE /\ tasks' = Replace(t, [t EXCEPT !.pc = "walk",
                      !.root = IF c.isBucket THEN BucketRoot(c.bucket)
                                  ELSE DefaultRoot,
                      !.cur = <<>>,
                      !.inter = PopRest(c.parts),
                      !.final = PopName(c.parts)])
                /\ UNCHANGED <<message, modalOpen>>
  /\ UNCHANGED <<variant, idb, permission, fileSystem, selectedFile,
                 fileContent, buckets, directoryHandle, issued>>

\* a walk that passes {create: true} in every handler
WalkCreating(t) ==
  /\ t.op \in PathOps /\ t.pc = "walk"
  /\ t.inter # <<>>
  /\ LET r == IF ~RootExists(storage, t.root)
                THEN Fail(EmptyFS, "InvalidStateError")
                ELSE getDirectoryHandle(FSOf(storage, t.root), t.cur,
                                        Head(t.inter), TRUE)
     IN /\ storage' = IF RootExists(storage, t.root)
                        THEN SetFS(storage, t.root, r.fs) ELSE storage
        /\ IF r.err # "none" THEN Catch(t, r.err)
           ELSE /\ tasks' = Replace(t, [t EXCEPT !.cur = Append(t.cur, Head(t.inter)),
                      !.inter = Tail(t.inter)])
                /\ UNCHANGED <<message, modalOpen>>
  /\ UNCHANGED <<variant, idb, permission, fileSystem, selectedFile,
                 fileContent, buckets, directoryHandle, issued>>

\* for (const part of pathParts)
\*   currentHandle = await currentHandle.getDirectoryHandle(part, ...)
Walk(t) ==
  /\ t.op \in PathOps /\ t.pc = "walk"
  /\ t.inter # <<>>
  /\ LET r == IF ~RootExists(storage, t.root)
                THEN Fail(EmptyFS, "InvalidStateError")
                ELSE getDirectoryHandle(FSOf(storage, t.root), t.cur,
                                        Head(t.inter), t.op = "create")
     IN /\ storage' = IF RootExists(storage, t.root)
                        THEN SetFS(storage, t.root, r.fs) ELSE storage
        /\ IF r.err # "none" THEN Catch(t, r.err)
           ELSE /\ tasks' = Replace(t, [t EXCEPT !.cur = Append(t.cur, Head(t.inter)),
                      !.inter = Tail(t.inter)])
                /\ UNCHANGED <<message, modalOpen>>
  /\ UNCHANGED <<variant, idb, permission, fileSystem, selectedFile,
                 fileContent, buckets, directoryHandle, issued>>

\* the paths of the tree of root r that an open writable stream holds
Locked(r) ==
  { Append(w.cur, w.final) :
      w \in {k \in Pending : /\ k.op = "save"
                             /\ k.pc \in {"write", "close"}
                             /\ k.root = r} }

\* the path of the entry a handler addresses, below its root
Target(t) == Append(t.cur, t.final)

IsFileAt(st, r, p) ==
  /\ RootExists(st, r)
  /\ p \in DOMAIN FSOf(st, r)
  /\ FSOf(st, r)[p].kind = "file"

IsDirAt(st, r, p) ==
  /\ RootExists(st, r)
  /\ p \in DOMAIN FSOf(st, r)
  /\ FSOf(st, r)[p].kind = "directory"

\* ------------------------------------------------------------------------
\* Mutation operations: create (handleModalAction, handleAction)
\* ------------------------------------------------------------------------

\* what follows a successful mutation: the OPFS explorers call
\* loadFileSystem() without awaiting it, the File System Access explorer
\* awaits fetchDirectoryContents(directoryHandle)
AfterMutation(t) ==
  IF variant = "fsapi" THEN [t EXCEPT !.pc = "refresh"] ELSE LoadTask

\* a substrate that replaces an entry of the other kind
CreateEntryReplacing(fs, dir, name, action) ==
  IF ~DirExists(fs, dir) THEN Fail(fs, "NotFoundError")
  ELSE IF ~ValidName(name) THEN Fail(fs, "TypeError")
  ELSE Ok(FSPut(FSRemove(fs, Append(dir, name)), Append(dir, name),
                IF action = "createFolder" THEN DirEntry ELSE FileEntry("")))

\* a substrate whose create is exclusive: it refuses a name that is taken
CreateEntryExclusive(fs, dir, name, action) ==
  IF Append(dir, name) \in DOMAIN fs THEN Fail(fs, "InvalidModificationError")
  ELSE IF action = "createFolder" THEN getDirectoryHandle(fs, dir, name, TRUE)
  ELSE getFileHandle(fs, dir, name, TRUE)

\* getDirectoryHandle or getFileHandle of the final segment, by the action
\* of the form
CreateEntry(fs, dir, name, action) ==
  IF action = "createFolder" THEN getDirectoryHandle(fs, dir, name, TRUE)
  ELSE getFileHandle(fs, dir, name, TRUE)

\* await currentHandle.getDirectoryHandle / getFileHandle(fileName,
\* {create: true}); setMessage; loadFileSystem()
CreateFinal(t) ==
  /\ t.op = "create" /\ t.pc = "walk"
  /\ t.inter = <<>>
  /\ LET r == IF ~RootExists(storage, t.root)
                THEN Fail(EmptyFS, "InvalidStateError")
              ELSE CreateEntry(FSOf(storage, t.root), t.cur, t.final, t.action)
     IN /\ storage' = IF RootExists(storage, t.root)
                        THEN SetFS(storage, t.root, r.fs) ELSE storage
        /\ IF r.err # "none" THEN Catch(t, r.err)
           ELSE /\ message' = Msg(IF t.action = "createFolder"
                                    THEN Say("Cartella creata", "Folder created")
                                    ELSE Say("File creato", "File created"),
                                  t.path, t)
                /\ tasks' = Replace(t, AfterMutation(t))
                /\ modalOpen' = IF variant = "fsapi" THEN modalOpen ELSE NoModal
  /\ UNCHANGED <<variant, idb, permission, fileSystem, selectedFile,
                 fileContent, buckets, directoryHandle, issued>>

\* the Crea Cartella and Crea File buttons
ClickCreate(action) ==
  /\ variant # "legacy"
  /\ PageReachable
  /\ MayStart("create")
  /\ modalOpen' = action
  /\ UNCHANGED <<variant, storage, idb, permission, fileSystem, selectedFile,
                 fileContent, message, buckets, directoryHandle, tasks, issued>>

\* the Annulla button of the create form
CancelModal ==
  /\ modalOpen # NoModal
  /\ modalOpen' = NoModal
  /\ UNCHANGED <<variant, storage, idb, permission, fileSystem, selectedFile,
                 fileContent, message, buckets, directoryHandle, tasks, issued>>

\* the root the create form names with its Bucket field
FormRoot(bucketField) ==
  IF bucketField # "" THEN BucketRoot(bucketField) ELSE DefaultRoot

\* the location argument the create form passes for its Bucket field
FormLocation(bucketField) ==
  IF variant = "opfs" THEN (IF bucketField # "" THEN "bucket" ELSE "root")
  ELSE (IF bucketField # "" THEN bucketField ELSE "root")

\* onConfirm of the create form of the OPFS explorers:
\* handleModalAction(values.Percorso, ...)
CreateTask(input, bucketField) ==
  [NoTask EXCEPT !.op = "create", !.pc = "openRoot", !.path = input,
     !.location = FormLocation(bucketField), !.action = modalOpen,
     !.origin = FormRoot(bucketField)]

ConfirmCreate(input, bucketField) ==
  /\ variant \in BucketVariants
  /\ modalOpen # NoModal
  /\ IF /\ variant = "opfs"
        /\ bucketField # ""
        /\ Split(input)[1] \notin buckets
       THEN \* throw new Error(`Il bucket "${bucketName}" non esiste.`)
            /\ MayStart("create")
            /\ issued' = [issued EXCEPT !["create"] = @ + 1]
            /\ message' = ErrMsg("Error", CreateTask(input, bucketField))
            /\ modalOpen' = NoModal
            /\ UNCHANGED tasks
       ELSE /\ Start(CreateTask(input, bucketField), "create")
            /\ UNCHANGED <<message, modalOpen>>
  /\ UNCHANGED <<variant, storage, idb, permission, fileSystem, selectedFile,
                 fileContent, buckets, directoryHandle>>

\* onConfirm of the create form of the File System Access explorer:
\* handleAction(formValues)
ConfirmAction(input) ==
  /\ variant = "fsapi"
  /\ modalOpen # NoModal
  /\ IF directoryHandle = NoRoot
       THEN \* if (!directoryHandle || !modalOpen) return;
            /\ MayStart("create")
            /\ issued' = [issued EXCEPT !["create"] = @ + 1]
            /\ UNCHANGED tasks
       ELSE Start([NoTask EXCEPT !.op = "create", !.pc = "walk", !.path = input,
                     !.action = modalOpen, !.root = directoryHandle,
                     !.origin = directoryHandle,
                     !.inter = PopRest(Split(input)),
                     !.final = PopName(Split(input))],
                  "create")
  /\ UNCHANGED <<variant, storage, idb, permission, fileSystem, selectedFile,
                 fileContent, message, buckets, modalOpen, directoryHandle>>

\* the buttons of the first revision: createNestedFolder and
\* createFileInFolder of the path the prompt returns
PromptCreate(action, input) ==
  /\ variant = "legacy"
  /\ Start([NoTask EXCEPT !.op = "create", !.pc = "openRoot", !.path = input,
              !.location = "root", !.action = action, !.origin = DefaultRoot],
           "create")
  /\ UNCHANGED <<variant, storage, idb, permission, fileSystem, selectedFile,
                 fileContent, message, buckets, modalOpen, directoryHandle>>

\* const contents = await fetchDirectoryContents(directoryHandle);
\* setFileSystem(contents), and what the handler does after it
RefreshFS(t) ==
  /\ t.pc = "refresh"
  /\ IF ~RootExists(storage, t.root)
       THEN \* entries() of a directory that is gone rejects: the restore
            \* only logs the error, the other handlers report it
            /\ IF t.op = "restore"
                 THEN tasks' = Replace(t, NoTask) /\ UNCHANGED <<message, modalOpen>>
                 ELSE Catch(t, "NotFoundError")
            /\ UNCHANGED fileSystem
       ELSE /\ fileSystem' = fetchDirectoryContents(FSOf(storage, t.root), <<>>,
                                                    <<>>, NoLocation)
            /\ message' =
                 (CASE t.op = "delete" ->
                         Msg(IF t.kind = "directory" THEN "Cartella eliminato"
                             ELSE "File eliminato", t.path, t)
                    [] t.op = "select" ->
                         Msg("Cartella caricata con successo!", <<>>, t)
                    [] OTHER -> message)
            /\ modalOpen' = IF t.op = "create" THEN NoModal ELSE modalOpen
            /\ tasks' = Replace(t, NoTask)
  /\ UNCHANGED <<variant, storage, idb, permission, selectedFile, fileContent,
                 buckets, directoryHandle, issued>>

\* ------------------------------------------------------------------------
\* Mutation operations: delete (deleteEntry)
\* ------------------------------------------------------------------------

\* a delete that closes the editor when it has removed something
DeleteFinalClosing(t) ==
  /\ t.op = "delete" /\ t.pc = "walk"
  /\ t.inter = <<>>
  /\ LET r == IF ~RootExists(storage, t.root)
                THEN Fail(EmptyFS, "InvalidStateError")
                ELSE removeEntry(FSOf(storage, t.root), t.cur, t.final,
                                 t.kind = "directory", Locked(t.root))
     IN /\ storage' = IF RootExists(storage, t.root)
                        THEN SetFS(storage, t.root, r.fs) ELSE storage
        /\ IF r.err # "none"
             THEN Catch(t, r.err) /\ UNCHANGED <<selectedFile, fileContent>>
           ELSE /\ message' =
                     IF variant = "fsapi" THEN message
                     ELSE Msg(IF t.kind = "directory"
                                THEN Say("Cartella eliminato", "Folder deleted")
                                ELSE Say("File eliminato", "File deleted"),
                              t.path, t)
                /\ tasks' = Replace(t, AfterMutation(t))
                /\ selectedFile' = NoNode
                /\ fileContent' = ""
                /\ UNCHANGED modalOpen
  /\ UNCHANGED <<variant, idb, permission, fileSystem, buckets,
                 directoryHandle, issued>>

\* await currentHandle.removeEntry(entryName, {recursive: kind === "directory"})
DeleteFinal(t) ==
  /\ t.op = "delete" /\ t.pc = "walk"
  /\ t.inter = <<>>
  /\ LET r == IF ~RootExists(storage, t.root)
                THEN Fail(EmptyFS, "InvalidStateError")
                ELSE removeEntry(FSOf(storage, t.root), t.cur, t.final,
                                 t.kind = "directory", Locked(t.root))
     IN /\ storage' = IF RootExists(storage, t.root)
                        THEN SetFS(storage, t.root, r.fs) ELSE storage
        /\ IF r.err # "none" THEN Catch(t, r.err)
           ELSE /\ message' =
                     IF variant = "fsapi" THEN message
                     ELSE Msg(IF t.kind = "directory"
                                THEN Say("Cartella eliminato", "Folder deleted")
                                ELSE Say("File eliminato", "File deleted"),
                              t.path, t)
                /\ tasks' = Replace(t, AfterMutation(t))
                /\ UNCHANGED modalOpen
  /\ UNCHANGED <<variant, idb, permission, fileSystem, selectedFile,
                 fileContent, buckets, directoryHandle, issued>>

\* await navigator.storageBuckets.delete(fullPath); setBuckets; setMessage;
\* loadFileSystem()
DeleteBucket(t) ==
  /\ t.op = "deleteBucket" /\ t.pc = "delete"
  /\ LET r == storageBucketsDelete(storage, Segment(t.path))
     IN /\ storage' = r.st
        /\ IF r.err # "none"
             THEN Catch(t, r.err) /\ UNCHANGED buckets
             ELSE /\ buckets' = buckets \ {Segment(t.path)}
                  /\ message' = Msg("Bucket eliminato", t.path, t)
                  /\ tasks' = Replace(t, LoadTask)
                  /\ UNCHANGED modalOpen
  /\ UNCHANGED <<variant, idb, permission, fileSystem, selectedFile,
                 fileContent, directoryHandle, issued>>

\* the root under which the nodes of the top-level node top are displayed
OriginOf(top) ==
  IF variant = "fsapi" THEN directoryHandle
  ELSE IF top.kind = "bucket" THEN BucketRoot(Segment(top.name))
  ELSE DefaultRoot

\* the handler a click on the Elimina button of node n starts
DeleteTask(n) ==
  IF n.kind = "bucket"
    THEN [NoTask EXCEPT !.op = "deleteBucket", !.pc = "delete",
            !.path = n.name, !.kind = "bucket", !.location = "bucket"]
  ELSE IF variant = "fsapi"
    THEN [NoTask EXCEPT !.op = "delete", !.pc = "walk", !.path = n.name,
            !.kind = n.kind, !.root = directoryHandle,
            !.inter = PopRest(Split(n.name)), !.final = PopName(Split(n.name))]
  ELSE [NoTask EXCEPT !.op = "delete", !.pc = "openRoot", !.path = n.name,
          !.kind = n.kind,
          !.location = IF variant = "opfs" THEN n.location ELSE ""]

\* the Elimina button of node n, displayed under the top-level node top
ClickDelete(top, n) ==
  /\ top \in fileSystem
  /\ n \in AllNodes({top})
  /\ ~(variant \in {"opfs", "legacy"} /\ n.kind = "directory"
        /\ n.name = <<"Root">>)
  /\ PageReachable
  /\ Start([DeleteTask(n) EXCEPT !.origin = OriginOf(top)], "delete")
  /\ UNCHANGED <<variant, storage, idb, permission, fileSystem, selectedFile,
                 fileContent, message, buckets, modalOpen, directoryHandle>>

\* ------------------------------------------------------------------------
\* openFile
\* ------------------------------------------------------------------------

\* const fileHandle = await currentHandle.getFileHandle(fileName);
OpenFinal(t) ==
  /\ t.op = "open" /\ t.pc = "walk"
  /\ t.inter = <<>>
  /\ LET r == IF ~RootExists(storage, t.root)
                THEN Fail(EmptyFS, "InvalidStateError")
                ELSE getFileHandle(FSOf(storage, t.root), t.cur, t.final, FALSE)
     IN IF r.err # "none" THEN Catch(t, r.err)
        ELSE /\ tasks' = Replace(t, [t EXCEPT !.pc = "read"])
             /\ UNCHANGED <<message, modalOpen>>
  /\ UNCHANGED <<variant, storage, idb, permission, fileSystem, selectedFile,
                 fileContent, buckets, directoryHandle, issued>>

\* the node setSelectedFile keeps.  origin is not a value of the program: it
\* is the root under which the opened node was displayed
Selected(node, origin) == node @@ [origin |-> origin]

\* const file = await fileHandle.getFile(): a snapshot of the file
OpenGetFile(t) ==
  /\ t.op = "open" /\ t.pc = "read"
  /\ IF ~IsFileAt(storage, t.root, Target(t))
       THEN Catch(t, "NotFoundError")
       ELSE /\ tasks' = Replace(t, [t EXCEPT !.pc = "text",
                  !.buffer = FSOf(storage, t.root)[Target(t)].content])
            /\ UNCHANGED <<message, modalOpen>>
  /\ UNCHANGED <<variant, storage, idb, permission, fileSystem, selectedFile,
                 fileContent, buckets, directoryHandle, issued>>

\* the file is as it was when the snapshot of handler t was taken
Unmodified(t) ==
  /\ IsFileAt(storage, t.root, Target(t))
  /\ FSOf(storage, t.root)[Target(t)].content = t.buffer

\* the open handler t as the status line keeps it.  content is not a value
\* of the program there: it is the text the editor held when the open
\* replaced it
Opened(t) == [t EXCEPT !.content = fileContent]

\* an open that fills the editor only when it is empty
OpenTextKeepingEdits(t) ==
  /\ t.op = "open" /\ t.pc = "text"
  /\ \/ /\ ~Unmodified(t)
        /\ Catch(t, "NotReadableError")
        /\ UNCHANGED <<selectedFile, fileContent>>
     \/ /\ selectedFile' =
             Selected(FileNode(t.path, IF variant = "opfs" THEN t.location
                                       ELSE NoLocation), t.origin)
        /\ fileContent' = IF fileContent = "" THEN t.buffer ELSE fileContent
        /\ message' = Msg(Say("File aperto", "Loaded file"), t.path, Opened(t))
        /\ tasks' = Replace(t, NoTask)
        /\ UNCHANGED modalOpen
  /\ UNCHANGED <<variant, storage, idb, permission, fileSystem, buckets,
                 directoryHandle, issued>>

\* const content = await file.text(); setSelectedFile; setFileContent;
\* setMessage.  Reading a snapshot of a file that was modified or removed
\* since either yields the content of the snapshot or fails with
\* NotReadableError
OpenText(t) ==
  /\ t.op = "open" /\ t.pc = "text"
  /\ \/ /\ ~Unmodified(t)
        /\ Catch(t, "NotReadableError")
        /\ UNCHANGED <<selectedFile, fileContent>>
     \/ /\ selectedFile' =
             Selected(FileNode(t.path, IF variant = "opfs" THEN t.location
                                       ELSE NoLocation), t.origin)
        /\ fileContent' = t.buffer
        /\ message' = Msg(Say("File aperto", "Loaded file"), t.path, Opened(t))
        /\ tasks' = Replace(t, NoTask)
        /\ UNCHANGED modalOpen
  /\ UNCHANGED <<variant, storage, idb, permission, fileSystem, buckets,
                 directoryHandle, issued>>

\* the handler a click on the Apri button of node n starts
OpenTask(n) ==
  IF variant = "fsapi"
    THEN [NoTask EXCEPT !.op = "open", !.pc = "walk", !.path = n.name,
            !.root = directoryHandle,
            !.inter = PopRest(Split(n.name)), !.final = PopName(Split(n.name))]
    ELSE [NoTask EXCEPT !.op = "open", !.pc = "openRoot", !.path = n.name,
            !.location = IF variant = "opfs" THEN n.location ELSE ""]

\* the Apri button of the file node n, displayed under the top-level node top
ClickOpen(top, n) ==
  /\ top \in fileSystem
  /\ n \in AllNodes({top})
  /\ n.kind = "file"
  /\ PageReachable
  /\ Start([OpenTask(n) EXCEPT !.origin = OriginOf(top)], "open")
  /\ UNCHANGED <<variant, storage, idb, permission, fileSystem, selectedFile,
                 fileContent, message, buckets, modalOpen, directoryHandle>>

\* onChange of the editor: setFileContent(e.target.value)
Edit(v) ==
  /\ PageReachable
  /\ selectedFile # NoNode
  /\ fileContent # v
  /\ fileContent' = v
  /\ UNCHANGED <<variant, storage, idb, permission, fileSystem, selectedFile,
                 message, buckets, modalOpen, directoryHandle, tasks, issued>>

\* ------------------------------------------------------------------------
\* saveFile
\* ------------------------------------------------------------------------

\* whether saveFile passes {create: true} to getFileHandle: only
\* handleFileSave of the first revision does
SaveCreates == variant = "legacy"

\* const fileHandle = await currentHandle.getFileHandle(fileName);
SaveFinal(t) ==
  /\ t.op = "save" /\ t.pc = "walk"
  /\ t.inter = <<>>
  /\ LET r == IF ~RootExists(storage, t.root)
                THEN Fail(EmptyFS, "InvalidStateError")
                ELSE getFileHandle(FSOf(storage, t.root), t.cur, t.final,
                                   SaveCreates)
     IN /\ storage' = IF RootExists(storage, t.root)
                        THEN SetFS(storage, t.root, r.fs) ELSE storage
        /\ IF r.err # "none" THEN Catch(t, r.err)
           ELSE /\ tasks' = Replace(t, [t EXCEPT !.pc = "createWritable"])
                /\ UNCHANGED <<message, modalOpen>>
  /\ UNCHANGED <<variant, idb, permission, fileSystem, selectedFile,
                 fileContent, buckets, directoryHandle, issued>>

\* const writable = await fileHandle.createWritable(): an empty swap file
\* that holds the lock of the file until it is closed
SaveCreateWritable(t) ==
  /\ t.op = "save" /\ t.pc = "createWritable"
  /\ IF ~IsFileAt(storage, t.root, Target(t))
       THEN Catch(t, "NotFoundError")
       ELSE /\ tasks' = Replace(t, [t EXCEPT !.pc = "write", !.buffer = ""])
            /\ UNCHANGED <<message, modalOpen>>
  /\ UNCHANGED <<variant, storage, idb, permission, fileSystem, selectedFile,
                 fileContent, buckets, directoryHandle, issued>>

\* a writable that writes through to the file before it is closed
SaveWriteThrough(t) ==
  /\ t.op = "save" /\ t.pc = "write"
  /\ storage' = IF IsFileAt(storage, t.root, Target(t))
                  THEN SetFS(storage, t.root,
                             FSPut(FSOf(storage, t.root), Target(t),
                                   FileEntry(t.content)))
                ELSE storage
  /\ tasks' = Replace(t, [t EXCEPT !.pc = "close", !.buffer = t.content])
  /\ UNCHANGED <<variant, idb, permission, fileSystem, selectedFile,
                 fileContent, message, buckets, modalOpen, directoryHandle,
                 issued>>

\* a save that writes the text the editor holds when the write is reached
SaveWriteLatest(t) ==
  /\ t.op = "save" /\ t.pc = "write"
  /\ tasks' = Replace(t, [t EXCEPT !.pc = "close", !.buffer = fileContent])
  /\ UNCHANGED <<variant, storage, idb, permission, fileSystem, selectedFile,
                 fileContent, message, buckets, modalOpen, directoryHandle,
                 issued>>

\* await writable.write(fileContent): into the swap file
SaveWrite(t) ==
  /\ t.op = "save" /\ t.pc = "write"
  /\ tasks' = Replace(t, [t EXCEPT !.pc = "close", !.buffer = t.content])
  /\ UNCHANGED <<variant, storage, idb, permission, fileSystem, selectedFile,
                 fileContent, message, buckets, modalOpen, directoryHandle,
                 issued>>

\* await writable.close(): the swap file replaces the file; setMessage
SaveClose(t) ==
  /\ t.op = "save" /\ t.pc = "close"
  /\ IF ~IsFileAt(storage, t.root, Target(t))
         THEN Catch(t, "InvalidStateError") /\ UNCHANGED storage
         ELSE /\ storage' = SetFS(storage, t.root,
                              FSPut(FSOf(storage, t.root), Target(t),
                                    FileEntry(t.buffer)))
              /\ message' = Msg(Say("File salvato", "File saved"), t.path, t)
              /\ tasks' = Replace(t, NoTask)
              /\ UNCHANGED modalOpen
  /\ UNCHANGED <<variant, idb, permission, fileSystem, selectedFile,
                 fileContent, buckets, directoryHandle, issued>>

\* the handler the Salva button starts: it keeps the selectedFile and the
\* fileContent of the render it was created in
SaveTask ==
  IF variant = "fsapi"
    THEN [NoTask EXCEPT !.op = "save", !.pc = "walk",
            !.path = selectedFile.name, !.content = fileContent,
            !.root = directoryHandle, !.origin = selectedFile.origin,
            !.inter = PopRest(Split(selectedFile.name)),
            !.final = PopName(Split(selectedFile.name))]
    ELSE [NoTask EXCEPT !.op = "save", !.pc = "openRoot",
            !.path = selectedFile.name, !.content = fileContent,
            !.origin = selectedFile.origin,
            !.location = IF variant = "opfs" THEN selectedFile.location ELSE ""]

\* the Salva button of the editor
ClickSave ==
  /\ selectedFile # NoNode
  /\ PageReachable
  /\ Start(SaveTask, "save")
  /\ UNCHANGED <<variant, storage, idb, permission, fileSystem, selectedFile,
                 fileContent, message, buckets, modalOpen, directoryHandle>>

\* ------------------------------------------------------------------------
\* Storage Root Registry: createBucket
\* ------------------------------------------------------------------------

\* the options of the call navigator.storageBuckets.open(name, {...});
\* expires is kept as the offset in seconds from the time of the call
BucketOptions(quota, expires) ==
  [durability |-> "strict",
   expires |-> IF expires # 0 THEN ToString(expires) ELSE "undefined",
   quota |-> IF quota # 0 THEN ToString(quota) ELSE "undefined"]

\* await navigator.storageBuckets.open(name, {...}); setBuckets; setMessage;
\* loadFileSystem()
CreateBucketOpen(t) ==
  /\ t.op = "createBucket" /\ t.pc = "open"
  /\ LET r == storageBucketsOpen(storage, Segment(t.path), t.opts)
     IN /\ storage' = r.st
        /\ IF r.err # "none"
             THEN Catch(t, r.err) /\ UNCHANGED buckets
             ELSE /\ buckets' = buckets \cup {Segment(t.path)}
                  /\ message' = Msg("Bucket creato", t.path, t)
                  /\ tasks' = Replace(t, LoadTask)
                  /\ UNCHANGED modalOpen
  /\ UNCHANGED <<variant, idb, permission, fileSystem, selectedFile,
                 fileContent, directoryHandle, issued>>

\* onConfirm of the bucket form: createBucket(values.Nome, {quota, expires})
CreateBucket(name, quota, expires) ==
  /\ variant \in BucketVariants
  /\ PageReachable
  /\ Start([NoTask EXCEPT !.op = "createBucket", !.pc = "open",
              !.path = Str(name), !.opts = BucketOptions(quota, expires)],
           "createBucket")
  /\ UNCHANGED <<variant, storage, idb, permission, fileSystem, selectedFile,
                 fileContent, message, buckets, modalOpen, directoryHandle>>

\* ------------------------------------------------------------------------
\* The user-granted directory: selectDirectory and the restore on mount
\* ------------------------------------------------------------------------

\* the directories the user can grant in the picker
PickableDirs == {"d1"}

\* const handle = await window.showDirectoryPicker(); setDirectoryHandle;
\* saveDirectoryHandle(handle); the user may decline
Pick(t) ==
  /\ t.op = "select" /\ t.pc = "pick"
  /\ \/ /\ Catch(t, "AbortError")
        /\ UNCHANGED <<directoryHandle, idb>>
     \/ \E d \in PickableDirs :
          /\ directoryHandle' = LocalRoot(d)
          /\ idb' = LocalRoot(d)
          /\ tasks' = Replace(t, [t EXCEPT !.pc = "refresh", !.root = LocalRoot(d)])
          /\ UNCHANGED <<message, modalOpen>>
  /\ UNCHANGED <<variant, storage, permission, fileSystem, selectedFile,
                 fileContent, buckets, issued>>

\* the Seleziona cartella button
SelectDirectory ==
  /\ variant = "fsapi"
  /\ PageReachable
  /\ Start([NoTask EXCEPT !.op = "select", !.pc = "pick"], "select")
  /\ UNCHANGED <<variant, storage, idb, permission, fileSystem, selectedFile,
                 fileContent, message, buckets, modalOpen, directoryHandle>>

\* const storedHandle = await db.get(STORE_NAME, "directoryHandle");
RestoreGet(t) ==
  /\ t.op = "restore" /\ t.pc = "get"
  /\ tasks' = IF idb = NoRoot THEN Replace(t, NoTask)
              ELSE Replace(t, [t EXCEPT !.pc = "query", !.root = idb])
  /\ UNCHANGED <<variant, storage, idb, permission, fileSystem, selectedFile,
                 fileContent, message, buckets, modalOpen, directoryHandle,
                 issued>>

\* a restore that reuses the stored handle whatever its permission is
RestoreQueryUnchecked(t) ==
  /\ t.op = "restore" /\ t.pc = "query"
  /\ directoryHandle' = t.root
  /\ tasks' = Replace(t, [t EXCEPT !.pc = "refresh"])
  /\ UNCHANGED <<variant, storage, idb, permission, fileSystem, selectedFile,
                 fileContent, message, buckets, modalOpen, issued>>

\* const permission = await storedHandle.queryPermission();
\* if (permission === "granted") setDirectoryHandle(storedHandle)
\* catch (error) { console.error(...) }
RestoreQuery(t) ==
  /\ t.op = "restore" /\ t.pc = "query"
  /\ IF permission = "granted"
       THEN /\ directoryHandle' = t.root
            /\ tasks' = Replace(t, [t EXCEPT !.pc = "refresh"])
       ELSE \* another answer, or the rejection the catch block logs
            /\ tasks' = Replace(t, NoTask)
            /\ UNCHANGED directoryHandle
  /\ UNCHANGED <<variant, storage, idb, permission, fileSystem, selectedFile,
                 fileContent, message, buckets, modalOpen, issued>>

\* ------------------------------------------------------------------------
\* What the user types
\* ------------------------------------------------------------------------

PathInputs ==
  { <<"a">>,
    <<"a", "/", "b">>,
    <<"a", "/", "b", "/", "c">>,
    <<"b1", "/", "c">>,
    <<"c", "/">> }

BucketFieldInputs == {"", "b1", "root"}

\* what the user fills the create form with
CreateInputs ==
  { <<p, b>> \in PathInputs \X BucketFieldInputs :
      \/ p = <<"a", "/", "b", "/", "c">>
      \/ b = "" /\ p # <<"b1", "/", "c">>
      \/ b = "b1" /\ p = <<"b1", "/", "c">>
      \/ b = "root" /\ p = <<"a">> }

BucketNameInputs == {"b1", "root"}

ContentInputs == {"new"}

Actions == {"createFile", "createFolder"}

\* what the user answers the prompt of the first revision with
PromptInputs == PathInputs \ {<<"b1", "/", "c">>}

\* ------------------------------------------------------------------------
\* Specification
\* ------------------------------------------------------------------------

Next ==
  \/ \E a \in Actions : ClickCreate(a)
  \/ CancelModal
  \/ \E c \in CreateInputs : ConfirmCreate(c[1], c[2])
  \/ \E input \in PathInputs : ConfirmAction(input)
  \/ \E a \in Actions, input \in PromptInputs : PromptCreate(a, input)
  \/ \E top \in fileSystem : \E n \in AllNodes({top}) : ClickDelete(top, n)
  \/ \E top \in fileSystem : \E n \in AllNodes({top}) : ClickOpen(top, n)
  \/ \E v \in ContentInputs : Edit(v)
  \/ ClickSave
  \/ \E name \in BucketNameInputs : CreateBucket(name, 1024, 60)
  \/ Refresh
  \/ SelectDirectory
  \/ \E t \in Pending : LoadRoot(t)
  \/ \E t \in Pending : LoadLegacy(t)
  \/ \E t \in Pending : LoadKeys(t)
  \/ \E t \in Pending : LoadOpen(t)
  \/ \E t \in Pending : LoadBuckets(t)
  \/ \E t \in Pending : OpenRoot(t)
  \/ \E t \in Pending : Walk(t)
  \/ \E t \in Pending : CreateFinal(t)
  \/ \E t \in Pending : RefreshFS(t)
  \/ \E t \in Pending : DeleteFinal(t)
  \/ \E t \in Pending : DeleteBucket(t)
  \/ \E t \in Pending : OpenFinal(t)
  \/ \E t \in Pending : OpenGetFile(t)
  \/ \E t \in Pending : OpenText(t)
  \/ \E t \in Pending : SaveFinal(t)
  \/ \E t \in Pending : SaveCreateWritable(t)
  \/ \E t \in Pending : SaveWrite(t)
  \/ \E t \in Pending : SaveClose(t)
  \/ \E t \in Pending : CreateBucketOpen(t)
  \/ \E t \in Pending : Pick(t)
  \/ \E t \in Pending : RestoreGet(t)
  \/ \E t \in Pending : RestoreQuery(t)

Spec == Init /\ [][Next]_vars

\* the user waits for the pending handlers before the next action
NextSerial ==
  \/ Idle /\ \E a \in Actions : ClickCreate(a)
  \/ Idle /\ CancelModal
  \/ Idle /\ \E c \in CreateInputs : ConfirmCreate(c[1], c[2])
  \/ Idle /\ \E input \in PathInputs : ConfirmAction(input)
  \/ Idle /\ \E a \in Actions, input \in PromptInputs : PromptCreate(a, input)
  \/ Idle /\ \E top \in fileSystem : \E n \in AllNodes({top}) : ClickDelete(top, n)
  \/ Idle /\ \E top \in fileSystem : \E n \in AllNodes({top}) : ClickOpen(top, n)
  \/ Idle /\ \E v \in ContentInputs : Edit(v)
  \/ Idle /\ ClickSave
  \/ Idle /\ \E name \in BucketNameInputs : CreateBucket(name, 1024, 60)
  \/ Idle /\ Refresh
  \/ Idle /\ SelectDirectory
  \/ \E t \in Pending : LoadRoot(t)
  \/ \E t \in Pending : LoadLegacy(t)
  \/ \E t \in Pending : LoadKeys(t)
  \/ \E t \in Pending : LoadOpen(t)
  \/ \E t \in Pending : LoadBuckets(t)
  \/ \E t \in Pending : OpenRoot(t)
  \/ \E t \in Pending : Walk(t)
  \/ \E t \in Pending : CreateFinal(t)
  \/ \E t \in Pending : RefreshFS(t)
  \/ \E t \in Pending : DeleteFinal(t)
  \/ \E t \in Pending : DeleteBucket(t)
  \/ \E t \in Pending : OpenFinal(t)
  \/ \E t \in Pending : OpenGetFile(t)
  \/ \E t \in Pending : OpenText(t)
  \/ \E t \in Pending : SaveFinal(t)
  \/ \E t \in Pending : SaveCreateWritable(t)
  \/ \E t \in Pending : SaveWrite(t)
  \/ \E t \in Pending : SaveClose(t)
  \/ \E t \in Pending : CreateBucketOpen(t)
  \/ \E t \in Pending : Pick(t)
  \/ \E t \in Pending : RestoreGet(t)
  \/ \E t \in Pending : RestoreQuery(t)

SpecSerial == Init /\ [][NextSerial]_vars

\* ------------------------------------------------------------------------
\* Vocabulary of the properties
\* ------------------------------------------------------------------------

\* the path, below the root the user addressed, of the entry handler t was
\* started for: the create form takes it as typed, the nodes of the revision
\* with prefixed paths carry the name of their root in front of it
EntryPath(t) ==
  IF variant = "prefixed" /\ t.op # "create" THEN Rest(Split(t.path))
  ELSE Split(t.path)

\* the tree of root r, rebuilt from the storage st
TreeOf(st, r) == fetchDirectoryContents(FSOf(st, r), <<>>, <<>>, NoLocation)

\* in this step handler t reports an error: the status line becomes its
\* error, or stays its error (as a handler like it left it) while t returns
\* or is refused by the form
Fails(t) ==
  /\ IsError(message') /\ message'.by = t
  /\ \/ message' # message
     \/ tasks' = Replace(t, NoTask)
     \/ tasks' = tasks /\ issued' # issued

\* in this step handler t reports the error err
FailsWith(t, err) == Fails(t) /\ message'.arg = <<err>>

\* a file (or a directory) can be created at path p of the tree fs: no
\* segment before the last is a file, and the last is free or of that kind
Creatable(fs, p, kind) ==
  /\ \A i \in 1..(Len(p) - 1) :
       SubSeq(p, 1, i) \in DOMAIN fs => fs[SubSeq(p, 1, i)].kind = "directory"
  /\ p \in DOMAIN fs => fs[p].kind = kind
  /\ \A i \in 1..Len(p) : ValidName(p[i])

\* nodes hold the chain of directory nodes p[1], p[1]/p[2], ... that ends in
\* the file node p, from segment i on
RECURSIVE HasChain(_, _, _)
HasChain(nodes, p, i) ==
  \E n \in nodes :
    /\ n.name = JoinPath(SubSeq(p, 1, i))
    /\ IF i = Len(p) THEN n.kind = "file"
       ELSE n.kind = "directory" /\ HasChain(n.children, p, i + 1)

\* the handlers the create form would start in this state
FormTasks == {CreateTask(c[1], c[2]) : c \in CreateInputs}

\* ------------------------------------------------------------------------
\* C1
\* ------------------------------------------------------------------------

\* handler t creates a file at a nested path of three segments that can be
\* created in the root the user addressed
C1_Case(t) ==
  /\ t.op = "create" /\ t.action = "createFile"
  /\ Len(Split(t.path)) = 3
  /\ RootExists(storage, t.origin)
  /\ Creatable(FSOf(storage, t.origin), Split(t.path), "file")

\* C1: in every root, creating a file at a nested path a/b/c reports no
\* error, and once the file is created the tree rebuilt from that root holds
\* the directory node a, in it the directory node a/b, in it the file node
\* a/b/c
C1_NestedCreate ==
  [][\A t \in Pending \cup FormTasks :
       C1_Case(t) =>
         /\ ~Fails(t)
         /\ CreateFinal(t) =>
              HasChain(TreeOf(storage', t.origin), Split(t.path), 1)]_vars

\* ------------------------------------------------------------------------
\* C2
\* ------------------------------------------------------------------------

\* handler t saves the selected file, which exists in the root it was
\* opened from
C2_Case(t) ==
  /\ t.op = "save"
  /\ IsFileAt(storage, t.origin, EntryPath(t))

\* C2: saving content c to an existing file reports no error and leaves the
\* file holding exactly c, and opening a file puts exactly its stored content
\* in the editor
C2_RoundTrip ==
  [][\A t \in Pending :
       /\ C2_Case(t) =>
            /\ ~Fails(t)
            /\ SaveClose(t) =>
                 FSOf(storage', t.origin)[EntryPath(t)].content = t.content
       /\ t.op = "open" /\ OpenText(t) /\ ~Fails(t) =>
            /\ IsFileAt(storage, t.origin, EntryPath(t))
            /\ fileContent' = FSOf(storage, t.origin)[EntryPath(t)].content]_vars

\* ------------------------------------------------------------------------
\* C3
\* ------------------------------------------------------------------------

\* handler t deletes, with kind directory, a directory that exists in the
\* root under which its node is displayed
C3_Case(t) ==
  /\ t.op = "delete" /\ t.kind = "directory"
  /\ IsDirAt(storage, t.origin, EntryPath(t))

\* C3: in every root, deleting a directory reports no error, and the tree
\* built after the removal has no node at the path of the directory or
\* below it
C3_DeleteDirectory ==
  [][\A t \in Pending :
       C3_Case(t) =>
         /\ ~Fails(t)
         /\ DeleteFinal(t) =>
              \A n \in AllNodes(TreeOf(storage', t.origin)) :
                ~IsPrefix(EntryPath(t), Split(n.name))]_vars

\* ------------------------------------------------------------------------
\* C4
\* ------------------------------------------------------------------------

\* handler t is about to create its final segment where an entry of the
\* other kind exists
C4_Case(t) ==
  /\ t.op = "create" /\ t.pc = "walk" /\ t.inter = <<>>
  /\ RootExists(storage, t.root)
  /\ Target(t) \in DOMAIN FSOf(storage, t.root)
  /\ FSOf(storage, t.root)[Target(t)].kind #
       (IF t.action = "createFolder" THEN "directory" ELSE "file")

\* C4: creating a file where a directory exists, or a directory where a file
\* exists, fails with TypeMismatchError and leaves the storage as it was
C4_KindConflict ==
  [][\A t \in Pending :
       C4_Case(t) /\ CreateFinal(t) =>
         /\ FailsWith(t, "TypeMismatchError")
         /\ storage' = storage]_vars

\* a create of a file has failed with TypeMismatchError on a directory that
\* is still there
C4_Witness ==
  /\ IsError(message) /\ message.arg = <<"TypeMismatchError">>
  /\ message.by.op = "create" /\ message.by.inter = <<>>
  /\ message.by.action = "createFile"
  /\ IsDirAt(storage, message.by.root, Target(message.by))

\* ------------------------------------------------------------------------
\* C5
\* ------------------------------------------------------------------------

\* handler t deletes, in a bucket, an entry whose path also names an entry
\* of the default root
C5_Case(t) ==
  /\ t.op = "delete"
  /\ t.origin.loc = "bucket" /\ RootExists(storage, t.origin)
  /\ EntryPath(t) \in DOMAIN FSOf(storage, t.origin)
  /\ EntryPath(t) \in DOMAIN storage.root

\* C5: deleting in a bucket an entry that the default root holds at the same
\* path reports no error, removes the entry from the bucket and leaves the
\* default root as it was
C5_IndependentRoots ==
  [][\A t \in Pending :
       C5_Case(t) =>
         /\ ~Fails(t)
         /\ storage'.root = storage.root
         /\ DeleteFinal(t) =>
              EntryPath(t) \notin DOMAIN FSOf(storage', t.origin)]_vars

\* ------------------------------------------------------------------------
\* C6
\* ------------------------------------------------------------------------

\* the forest holds a bucket node of that name
HasBucketNode(forest, name) ==
  \E n \in forest : n.kind = "bucket" /\ n.name = name

\* C6: when the user waits for each action to finish, the load that
\* completes after createBucket has reported success shows a bucket node of
\* the created name, and the load that completes after the deletion of a
\* bucket has reported success shows no bucket node of that name
C6_BucketListed ==
  [][\A l \in Pending :
       LoadBuckets(l) =>
         /\ message.text = "Bucket creato" =>
              HasBucketNode(fileSystem', message.arg)
         /\ message.text = "Bucket eliminato" =>
              ~HasBucketNode(fileSystem', message.arg)]_vars

\* a bucket was created with a quota and an expiry in a storage without
\* buckets and then deleted, each followed by its load: it is listed no more
C6_Witness ==
  /\ Idle
  /\ issued["createBucket"] = 1 /\ issued["delete"] = 1 /\ Total = 2
  /\ storage.root = EmptyFS
  /\ DOMAIN storage.buckets = {}
  /\ message.text = "File system caricato con successo!"
  /\ \E n \in fileSystem : n.kind = "directory"
  /\ ~HasBucketNode(fileSystem, <<"b1">>)

\* ------------------------------------------------------------------------
\* C7
\* ------------------------------------------------------------------------

\* C7: a handler that opens by name a bucket that does not exist fails with
\* NotFoundError and gets no root: no bucket of that name comes to exist
C7_OpenMissingBucket ==
  [][\A t \in Pending :
       /\ t.pc = "openRoot"
       /\ RootChoice(t).isBucket
       /\ ValidBucketName(RootChoice(t).bucket)
       /\ RootChoice(t).bucket \notin DOMAIN storage.buckets
       /\ OpenRoot(t)
       => /\ FailsWith(t, "NotFoundError")
          /\ storage' = storage]_vars

\* ------------------------------------------------------------------------
\* C8
\* ------------------------------------------------------------------------

\* C8: createBucket with the name of an existing bucket fails with
\* AlreadyExistsError
C8_BucketNameTaken ==
  [][\A t \in Pending :
       /\ t.op = "createBucket"
       /\ Segment(t.path) \in DOMAIN storage.buckets
       /\ CreateBucketOpen(t)
       => FailsWith(t, "AlreadyExistsError")]_vars

\* ------------------------------------------------------------------------
\* C9
\* ------------------------------------------------------------------------

\* handler t saves the selected file when its directory exists in the root
\* it was opened from and holds no entry of its name
C9_Case(t) ==
  /\ t.op = "save"
  /\ RootExists(storage, t.origin)
  /\ EntryPath(t) # <<>>
  /\ DirExists(FSOf(storage, t.origin), Front(EntryPath(t)))
  /\ EntryPath(t) \notin DOMAIN FSOf(storage, t.origin)

\* C9: saving the selected file when no file exists at its path reports no
\* error and creates the file, and a save that completes leaves the file
\* holding the editor content
C9_SaveCreates ==
  [][\A t \in Pending :
       /\ C9_Case(t) =>
            /\ ~Fails(t)
            /\ SaveFinal(t) => IsFileAt(storage', t.origin, EntryPath(t))
       /\ t.op = "save" /\ SaveClose(t) /\ ~Fails(t) =>
            /\ IsFileAt(storage', t.origin, EntryPath(t))
            /\ FSOf(storage', t.origin)[EntryPath(t)].content = t.content]_vars

\* ------------------------------------------------------------------------
\* C10
\* ------------------------------------------------------------------------

\* the roots that exist in the storage st
Roots(st) ==
  {DefaultRoot} \cup {BucketRoot(b) : b \in DOMAIN st.buckets}
                \cup {LocalRoot(d) : d \in DOMAIN st.local}

\* the files of root r whose content this step changes
Rewritten(r) ==
  { p \in DOMAIN FSOf(storage, r) \cap DOMAIN FSOf(storage', r) :
      /\ FSOf(storage, r)[p].kind = "file"
      /\ FSOf(storage', r)[p].kind = "file"
      /\ FSOf(storage', r)[p].content # FSOf(storage, r)[p].content }

\* C10: with handlers interleaved at every await, the content of a file
\* changes only in the step that closes the writable of a save, and it
\* changes to the whole content that save was started with; an open takes
\* as its snapshot the whole content stored at that step and puts that
\* snapshot in the editor; a save that reports an error leaves the storage
\* as it was
C10_AtomicSave ==
  [][/\ \A r \in Roots(storage) \cap Roots(storage') :
          \A p \in Rewritten(r) :
            \E t \in Pending :
              /\ t.op = "save" /\ t.pc = "close" /\ SaveClose(t)
              /\ t.root = r /\ Target(t) = p
              /\ FSOf(storage', r)[p].content = t.content
     /\ \A t \in Pending :
          /\ t.op = "open" /\ OpenGetFile(t) /\ ~Fails(t) =>
               \E u \in Pending' :
                 /\ u.op = "open" /\ u.pc = "text"
                 /\ u.buffer = FSOf(storage, t.root)[Target(t)].content
          /\ t.op = "open" /\ OpenText(t) /\ ~Fails(t) =>
               fileContent' = t.buffer
          /\ t.op = "save" /\ Fails(t) => storage' = storage]_vars

\* an open has read the old content of a file while a save of the same file
\* had written its new content and not yet closed
C10_Witness ==
  \E s \in Pending :
    /\ s.op = "save" /\ s.pc = "close" /\ s.buffer = "new"
    /\ message.by.op = "open" /\ message.by.pc = "text"
    /\ ~IsError(message)
    /\ message.by.root = s.root /\ Target(message.by) = Target(s)
    /\ fileContent = "old"
    /\ FSOf(storage, s.root)[Target(s)].content = "old"

\* ------------------------------------------------------------------------
\* C11
\* ------------------------------------------------------------------------

\* the kind of entry the action of the create form makes
KindOf(action) == IF action = "createFolder" THEN "directory" ELSE "file"

\* handler t walks towards, or is about to create, an entry that its root
\* already holds with the kind it creates
C11_Case(t) ==
  /\ t.op = "create" /\ t.pc = "walk"
  /\ RootExists(storage, t.root)
  /\ (t.cur \o t.inter \o <<t.final>>) \in DOMAIN FSOf(storage, t.root)
  /\ FSOf(storage, t.root)[t.cur \o t.inter \o <<t.final>>].kind =
       KindOf(t.action)

\* C11: creating a file where a file exists, or a directory where a
\* directory exists, reports no error and leaves the whole storage as it
\* was, at every step of the walk and at the creation of the last segment
C11_IdempotentCreate ==
  [][\A t \in Pending :
       C11_Case(t) /\ (Walk(t) \/ CreateFinal(t)) =>
         /\ ~Fails(t)
         /\ storage' = storage]_vars

\* a create of a file has reported success at a path whose file still holds
\* the content it had before
C11_Witness ==
  /\ message.text \in {"File creato", "File created"}
  /\ message.by.op = "create" /\ message.by.action = "createFile"
  /\ Len(Target(message.by)) = 2
  /\ IsFileAt(storage, message.by.root, Target(message.by))
  /\ FSOf(storage, message.by.root)[Target(message.by)].content = "old"

\* ------------------------------------------------------------------------
\* C12
\* ------------------------------------------------------------------------

\* this step changes the storage only in root r, and there only by adding
\* entries at path p or at a prefix of it
ChangesOnly(r, p) ==
  /\ Roots(storage') = Roots(storage)
  /\ \A r2 \in Roots(storage) \ {r} : FSOf(storage', r2) = FSOf(storage, r2)
  /\ \A q \in DOMAIN FSOf(storage, r) :
       q \in DOMAIN FSOf(storage', r) /\ FSOf(storage', r)[q] = FSOf(storage, r)[q]
  /\ \A q \in DOMAIN FSOf(storage', r) \ DOMAIN FSOf(storage, r) : IsPrefix(q, p)

\* handler t creates an entry at a path that can be created in the root the
\* form names
C12_Case(t) ==
  /\ t.op = "create"
  /\ RootExists(storage, t.origin)
  /\ Creatable(FSOf(storage, t.origin), Split(t.path), KindOf(t.action))

\* C12: a create submitted with bucket B and path p (or with no bucket)
\* reports no error, changes nothing but the root the form names, adds
\* nothing there but p and the directories above it, and ends with an entry
\* of the created kind at p in that root
C12_CreateAddressing ==
  [][\A t \in Pending \cup FormTasks :
       C12_Case(t) =>
         /\ ~Fails(t)
         /\ t \in Pending /\ tasks' # tasks =>
              ChangesOnly(t.origin, Split(t.path))
         /\ CreateFinal(t) =>
              /\ Split(t.path) \in DOMAIN FSOf(storage', t.origin)
              /\ FSOf(storage', t.origin)[Split(t.path)].kind = KindOf(t.action)]_vars

\* ------------------------------------------------------------------------
\* C13
\* ------------------------------------------------------------------------

\* the buckets whose traversal fails in the load l: getDirectory() of a
\* bucket that was removed after the load opened it rejects
FailedBuckets(l) == {b \in l.keys : b \notin DOMAIN storage.buckets}

\* C13: with handlers interleaved at every await, a load in which the
\* traversal of a bucket fails reports an error and leaves the displayed
\* tree as it was
C13_LoadAllOrNothing ==
  [][\A l \in Pending :
       LoadBuckets(l) /\ FailedBuckets(l) # {} =>
         /\ Fails(l)
         /\ fileSystem' = fileSystem]_vars

\* ------------------------------------------------------------------------
\* C14
\* ------------------------------------------------------------------------

\* the error the substrate raises in the step handler t takes next while it
\* resolves its path, "none" when it raises none
StepError(t) ==
  IF ~(t.op \in PathOps /\ t.pc = "walk") THEN "none"
  ELSE IF ~RootExists(storage, t.root) THEN "InvalidStateError"
  ELSE IF t.inter # <<>>
    THEN getDirectoryHandle(FSOf(storage, t.root), t.cur, Head(t.inter),
                            t.op = "create").err
  ELSE IF t.op = "create"
    THEN CreateEntry(FSOf(storage, t.root), t.cur, t.final, t.action).err
  ELSE IF t.op = "delete"
    THEN removeEntry(FSOf(storage, t.root), t.cur, t.final,
                     t.kind = "directory", Locked(t.root)).err
  ELSE getFileHandle(FSOf(storage, t.root), t.cur, t.final,
                     t.op = "save" /\ SaveCreates).err

\* handler t takes a step of its path resolution
Resolves(t) ==
  Walk(t) \/ CreateFinal(t) \/ DeleteFinal(t) \/ OpenFinal(t) \/ SaveFinal(t)

\* C14: a handler whose path resolution is refused by the substrate, a load
\* in which the traversal of a bucket fails, and a create confirmed with no
\* directory selected each set the status line to a message of their own;
\* a handler that has reported an error has returned and none like it is
\* started in its place
C14_NoSwallowedFailure ==
  [][/\ \A t \in Pending :
          /\ StepError(t) # "none" /\ Resolves(t) => FailsWith(t, StepError(t))
          /\ LoadBuckets(t) /\ FailedBuckets(t) # {} => Fails(t)
          /\ Fails(t) => tasks' = Replace(t, NoTask)
     /\ \A input \in PathInputs :
          ConfirmAction(input) /\ directoryHandle = NoRoot =>
            /\ message' # message
            /\ message'.by.op = "create"]_vars

\* ------------------------------------------------------------------------
\* C15
\* ------------------------------------------------------------------------

\* the root the handler t opens from its path and location
ChosenRoot(t) ==
  IF RootChoice(t).isBucket THEN BucketRoot(RootChoice(t).bucket)
  ELSE DefaultRoot

\* C15: an open or a delete started from a node that the tree builder made
\* for an entry resolves to the root under which the node is displayed and,
\* below it, to the path of the entry the node was built from
C15_NodeAddressing ==
  \A t \in Pending :
    t.op \in {"open", "delete"} /\ EntryPath(t) # <<>> =>
      /\ t.pc = "openRoot" =>
           /\ ChosenRoot(t) = t.origin
           /\ RootChoice(t).parts = EntryPath(t)
      /\ t.pc = "walk" =>
           /\ t.root = t.origin
           /\ t.cur \o t.inter \o <<t.final>> = EntryPath(t)

\* ------------------------------------------------------------------------
\* C16
\* ------------------------------------------------------------------------

\* the number of segments that the name of a node carries in front of the
\* path of its entry
PrefixLen == IF variant = "prefixed" THEN 1 ELSE 0

\* the path of the entry that node n names
NodePath(n) == SubSeq(Split(n.name), PrefixLen + 1, Len(Split(n.name)))

\* the entries of the tree fs directly in the directory dir
EntriesIn(fs, dir) ==
  {q \in DOMAIN fs : Len(q) = Len(dir) + 1 /\ IsPrefix(dir, q)}

\* nodes is an exact image of the directory dir of the tree fs: one node per
\* entry, a directory node with a children field that is an exact image of
\* the directory, a file node without a children field
RECURSIVE ExactImage(_, _, _)
ExactImage(nodes, fs, dir) ==
  /\ {NodePath(n) : n \in nodes} = EntriesIn(fs, dir)
  /\ Cardinality(nodes) = Cardinality(EntriesIn(fs, dir))
  /\ \A n \in nodes :
       IF fs[NodePath(n)].kind = "directory"
         THEN /\ n.kind = "directory"
              /\ "children" \in DOMAIN n
              /\ ExactImage(n.children, fs, NodePath(n))
         ELSE /\ n.kind = "file"
              /\ "children" \notin DOMAIN n

\* C16: every tree a handler builds is an exact image, at every depth, of
\* the root it traverses as the storage is at that step: the content of the
\* default root, the children of each bucket node, and the tree of the
\* user-granted directory
C16_ExactImage ==
  [][\A t \in Pending :
       /\ LoadRoot(t) =>
            \A u \in Pending' \ Pending :
              ExactImage(u.rootContent, storage.root, <<>>)
       /\ LoadLegacy(t) =>
            \A top \in fileSystem' :
              ExactImage(top.children, storage.root, <<>>)
       /\ LoadBuckets(t) =>
            \A top \in fileSystem' :
              top.kind = "bucket" /\ Segment(top.name) \in DOMAIN storage.buckets
                => ExactImage(top.children,
                              storage.buckets[Segment(top.name)].fs, <<>>)
       /\ RefreshFS(t) /\ RootExists(storage, t.root) =>
            ExactImage(fileSystem', FSOf(storage, t.root), <<>>)]_vars

\* a load has displayed a root that holds a directory with a file in it:
\* the directory node holds the file node, which has no children field
C16_Witness ==
  /\ message.by.op \in {"load", "select"} /\ ~IsError(message)
  /\ \E top \in fileSystem :
       \E n \in AllNodes({top}) :
         /\ n.kind = "directory" /\ NodePath(n) = <<"a">>
         /\ \E c \in n.children :
              /\ c.kind = "file" /\ NodePath(c) = <<"a", "b">>
              /\ "children" \notin DOMAIN c

\* ------------------------------------------------------------------------
\* C17
\* ------------------------------------------------------------------------

\* the name of each node of nodes is parentPath joined by one separator to
\* one entry name (the bare entry name when parentPath is empty), and so on
\* below each node that has children
RECURSIVE WellNamed(_, _)
WellNamed(nodes, parentPath) ==
  \A n \in nodes :
    /\ n.name # <<>> /\ Head(n.name) # Slash
    /\ Last(n.name) \notin {Slash, ""}
    /\ n.name = IF parentPath = <<>> THEN <<Last(n.name)>>
                ELSE Concat3(parentPath, Last(n.name))
    /\ "children" \in DOMAIN n => WellNamed(n.children, n.name)

\* the displayed trees of the roots: the children of each root or bucket
\* node, or the forest itself in the File System Access explorer
RootTrees ==
  IF variant = "fsapi" THEN {fileSystem}
  ELSE {top.children : top \in fileSystem}

\* C17: in every displayed tree of a root, a node at the top of the root is
\* named by its bare entry name, a node below a directory by the name of
\* the directory node, one separator and its entry name; no name starts
\* with a separator, and no two nodes of one root's tree have the same name
C17_NodePaths ==
  \A tree \in RootTrees :
    /\ WellNamed(tree, <<>>)
    /\ \A n1, n2 \in AllNodes(tree) : n1.name = n2.name => n1 = n2

\* ------------------------------------------------------------------------
\* C18
\* ------------------------------------------------------------------------

\* the forest a load of the current storage would display
DerivedForest ==
  IF variant = "fsapi"
    THEN IF ~RootExists(storage, directoryHandle) THEN {}
         ELSE fetchDirectoryContents(FSOf(storage, directoryHandle), <<>>,
                                     <<>>, NoLocation)
  ELSE IF variant = "legacy"
    THEN {DirNode(RootNodeName, "directory", NoLocation,
                  fetchDirectoryContents(storage.root, <<>>, <<>>, NoLocation))}
  ELSE {DirNode(RootNodeName, "directory", RootLocation,
                fetchDirectoryContents(storage.root, <<>>, RootParentPath,
                                       RootLocation))}
       \cup {BucketNode(b, fetchBucketContents(storage, b)) :
               b \in storageBucketsKeys(storage)}

\* in this step handler t completes a mutation of the structure
Mutates(t) ==
  /\ \/ CreateFinal(t) \/ DeleteFinal(t) \/ DeleteBucket(t)
     \/ CreateBucketOpen(t)
  /\ ~Fails(t)

\* a handler that walks the whole storage again
Rewalks(u) == u.op = "load" \/ u.pc = "refresh"

\* C18: with handlers interleaved at every await, each completed create,
\* delete, bucket creation and bucket deletion leaves a full re-walk
\* pending, and whenever no handler is pending the displayed forest is the
\* forest derived from the storage as it is
C18_TreeFollowsStorage ==
  [][/\ \A t \in Pending : Mutates(t) => \E u \in Pending' : Rewalks(u)
     /\ Idle' => fileSystem' = DerivedForest']_vars

\* ------------------------------------------------------------------------
\* C19
\* ------------------------------------------------------------------------

\* handler t resolves its path without creation flags
ResolvesOnly(t) ==
  /\ t.op \in {"open", "delete", "save"}
  /\ ~(t.op = "save" /\ SaveCreates)
  /\ t.pc = "walk"
  /\ RootExists(storage, t.root)
  /\ DirExists(FSOf(storage, t.root), t.cur)

\* the segment handler t resolves next is absent from its directory
NextAbsent(t) ==
  Append(t.cur, IF t.inter # <<>> THEN Head(t.inter) ELSE t.final)
    \notin DOMAIN FSOf(storage, t.root)

\* C19: an open, a delete or a save that reaches an absent intermediate
\* segment, and an open or a delete that reaches an absent final segment,
\* fails there with NotFoundError and leaves the storage as it was
C19_ResolveNotFound ==
  [][\A t \in Pending :
       /\ ResolvesOnly(t) /\ NextAbsent(t)
       /\ Walk(t) \/ OpenFinal(t) \/ DeleteFinal(t)
       => /\ FailsWith(t, "NotFoundError")
          /\ storage' = storage]_vars

\* a save has failed with NotFoundError at an intermediate directory that
\* is absent, and nothing exists at the path of the file
C19_Witness ==
  /\ IsError(message) /\ message.arg = <<"NotFoundError">>
  /\ message.by.op = "save" /\ message.by.pc = "walk"
  /\ message.by.inter # <<>>
  /\ RootExists(storage, message.by.root)
  /\ \A p \in DOMAIN FSOf(storage, message.by.root) :
       ~IsPrefix(Append(message.by.cur, Head(message.by.inter)), p)

\* ------------------------------------------------------------------------
\* C20
\* ------------------------------------------------------------------------

\* C20: when the user waits for each action to finish, an open that
\* completes makes its file the selected file and puts the stored content
\* of that file in the editor, whatever the editor held; a save carries the
\* selected file and the text of the editor as they are when it is started,
\* and the content of a file changes only to what a save carries
C20_SingleEditor ==
  [][/\ \A t \in Pending :
          t.op = "open" /\ OpenText(t) /\ ~Fails(t) =>
            /\ selectedFile'.kind = "file"
            /\ selectedFile'.name = t.path
            /\ selectedFile'.origin = t.origin
            /\ IsFileAt(storage', t.origin, EntryPath(t))
            /\ fileContent' = FSOf(storage', t.origin)[EntryPath(t)].content
     /\ ClickSave =>
          \A u \in Pending' :
            u.op = "save" =>
              u.path = selectedFile.name /\ u.content = fileContent
     /\ \A r \in Roots(storage) \cap Roots(storage') :
          \A p \in Rewritten(r) :
            \E t \in Pending :
              /\ SaveClose(t) /\ t.root = r /\ Target(t) = p
              /\ FSOf(storage', r)[p].content = t.content]_vars

\* an open has completed over an editor that held unsaved edits: the editor
\* holds the stored content of the opened file, and no file holds the edits
C20_Witness ==
  /\ message.by.op = "open" /\ ~IsError(message)
  /\ message.by.content = "new"
  /\ selectedFile.name = message.by.path
  /\ fileContent = "old"
  /\ \A r \in Roots(storage) :
       \A p \in DOMAIN FSOf(storage, r) : FSOf(storage, r)[p].content # "new"

\* ------------------------------------------------------------------------
\* C21
\* ------------------------------------------------------------------------

\* handler t is the restore of the mount effect
Restores(t) == t.op = "restore"

\* C21: the restore on mount makes the stored handle the active one and
\* enumerates that directory exactly when queryPermission() answered
\* "granted".  With nothing stored, with any other answer and with a query
\* that rejects, the restore returns at once: it leaves the active handle and
\* the tree as they were and never reaches the enumeration
C21_RestoreGranted ==
  [][\A t \in Pending :
       Restores(t) =>
         /\ RestoreGet(t) =>
              /\ directoryHandle' = directoryHandle
              /\ fileSystem' = fileSystem
              /\ IF idb = NoRoot THEN tasks' = Replace(t, NoTask)
                 ELSE tasks' = Replace(t, [t EXCEPT !.pc = "query", !.root = idb])
         /\ RestoreQuery(t) /\ permission = "granted" =>
              /\ directoryHandle' = t.root
              /\ \E u \in Pending' : Restores(u) /\ u.pc = "refresh" /\ u.root = t.root
         /\ RestoreQuery(t) /\ permission # "granted" =>
              /\ directoryHandle' = directoryHandle
              /\ fileSystem' = fileSystem
              /\ tasks' = Replace(t, NoTask)
         /\ RefreshFS(t) =>
              /\ permission = "granted"
              /\ RootExists(storage, t.root) =>
                   fileSystem' = TreeOf(storage, t.root)]_vars

\* a stored handle of a populated directory was not reused: its permission
\* was not granted, the restore has returned, nothing else was started
C21_Witness ==
  /\ variant = "fsapi"
  /\ idb = LocalRoot("d1")
  /\ permission \in {"prompt", QueryRejects}
  /\ storage.local["d1"] # EmptyFS
  /\ Idle
  /\ issued = [k \in Kinds |-> 0]
  /\ directoryHandle = NoRoot
  /\ fileSystem = {}

\* ------------------------------------------------------------------------
\* C22
\* ------------------------------------------------------------------------

\* the status line reports the success of a create or of a delete
ReportsAction(m) == m.by.op \in {"create", "delete"} /\ ~IsError(m)

\* in this step the handler t finishes a rebuild of the tree
FinishesRefresh(t) == LoadBuckets(t) \/ LoadLegacy(t) \/ RefreshFS(t)

\* C22: when the user waits for each action to finish, the refresh that a
\* create or a delete triggers leaves the outcome of that action in the
\* status line: a rebuild that a create or delete handler ends itself ends
\* with the message of that handler, and a reload that finishes while the
\* status line reports a create or a delete does not replace that message
C22_OwnOutcome ==
  [][\A t \in Pending :
       FinishesRefresh(t) =>
         /\ t.op \in {"create", "delete"} =>
              ReportsAction(message') /\ message'.by.op = t.op
                /\ message'.arg = t.path
         /\ t.op = "load" /\ ReportsAction(message) => message' = message]_vars

\* ------------------------------------------------------------------------
\* C23
\* ------------------------------------------------------------------------

\* handler u is handler t at a later await, with the same captured pair
SamePair(t, u) ==
  u.op = "save" /\ u.path = t.path /\ u.content = t.content /\ u.origin = t.origin

\* C23: a save writes the pair it captured.  The handler the Salva button
\* starts carries the path of the selected file and the text of the editor;
\* whatever else happens while it is suspended (an edit, another open), it
\* keeps that pair until it returns; and when it commits, the only change of
\* the storage is that the file at the captured path, below the root the
\* handler resolved, holds the captured text
C23_SaveCapturedPair ==
  [][/\ ClickSave =>
          \E u \in Pending' : /\ u.op = "save"
                              /\ u.path = selectedFile.name
                              /\ u.content = fileContent
                              /\ u.origin = selectedFile.origin
     /\ \A t \in Pending :
          t.op = "save" =>
            \/ \E u \in Pending' : SamePair(t, u)
            \/ tasks' = Replace(t, NoTask)
     /\ \A t \in Pending :
          SaveClose(t) /\ ~Fails(t) =>
            /\ Target(t) = EntryPath(t)
            /\ storage' = SetFS(storage, t.root,
                                FSPut(FSOf(storage, t.root), EntryPath(t),
                                      FileEntry(t.content)))]_vars

\* a save has committed after another file was opened and the editor shows
\* another text: the saved file holds the captured text and the file that is
\* open now does not
C23_Witness ==
  /\ message.by.op = "save" /\ ~IsError(message)
  /\ selectedFile # NoNode
  /\ selectedFile.origin # message.by.origin
  /\ fileContent # message.by.content
  /\ IsFileAt(storage, message.by.root, EntryPath(message.by))
  /\ FSOf(storage, message.by.root)[EntryPath(message.by)].content
       = message.by.content
  /\ \A r \in Roots(storage) \ {message.by.root} :
       \A p \in DOMAIN FSOf(storage, r) :
         FSOf(storage, r)[p].content # message.by.content

\* ------------------------------------------------------------------------
\* C24
\* ------------------------------------------------------------------------

\* in this step the open, save or delete handler t passes one of its awaits
StepOf(t) ==
  \/ OpenRoot(t) \/ Walk(t)
  \/ DeleteFinal(t)
  \/ OpenFinal(t) \/ OpenGetFile(t) \/ OpenText(t)
  \/ SaveFinal(t) \/ SaveCreateWritable(t) \/ SaveWrite(t) \/ SaveClose(t)

\* C24: no step of a handler that opens a file, saves a file or deletes a
\* file or a directory changes the set of the buckets that exist, whether the
\* handler goes on or fails, whatever tree its node came from
C24_BucketsFrame ==
  [][\A t \in Pending :
       t.op \in {"open", "save", "delete"} /\ StepOf(t) =>
         storageBucketsKeys(storage') = storageBucketsKeys(storage)]_vars

\* ------------------------------------------------------------------------
\* C25
\* ------------------------------------------------------------------------

\* the path create handler t has still to resolve below its root
Remaining(t) == t.cur \o t.inter \o <<t.final>>

\* C25: a create is all-or-nothing.  The step in which a create reports an
\* error adds nothing, and a create adds an intermediate directory only on
\* its way to a success: when its whole path can be created in the tree as it
\* is, which decides the outcome when the user waits for each action
C25_CreateAllOrNothing ==
  [][\A t \in Pending :
       t.op = "create" =>
         /\ (OpenRoot(t) \/ Walk(t) \/ CreateFinal(t)) /\ Fails(t) =>
              storage' = storage
         /\ Walk(t) /\ storage' # storage =>
              Creatable(FSOf(storage, t.root), Remaining(t), KindOf(t.action))]_vars

\* ------------------------------------------------------------------------
\* C26
\* ------------------------------------------------------------------------

\* C26: a delete removes an entry only when the entry is of the kind the
\* handler was given with the node: the step that removes something finds at
\* the path it resolved a file when the kind is "file" and a directory when
\* the kind is "directory"
C26_DeleteKind ==
  [][\A t \in Pending :
       DeleteFinal(t) /\ storage' # storage =>
         /\ IsFileAt(storage, t.root, Target(t)) => t.kind = "file"
         /\ IsDirAt(storage, t.root, Target(t)) => t.kind = "directory"]_vars

\* ------------------------------------------------------------------------
\* C27
\* ------------------------------------------------------------------------

\* C27: no bucket name stands for the default root.  A handler that was
\* started for a bucket that exists (from a node displayed under the bucket,
\* or from the create form with the name of the bucket in its Bucket field)
\* never walks the default root, whatever the name of the bucket is
C27_NoRootAlias ==
  \A t \in Pending :
    /\ t.op \in PathOps
    /\ t.pc # "openRoot"
    /\ t.origin.loc = "bucket"
    /\ RootExists(storage, t.origin)
    => t.root # DefaultRoot

\* ------------------------------------------------------------------------
\* C28
\* ------------------------------------------------------------------------

\* C28: the selection is never cleared.  Once a file is selected, every step
\* leaves a file selected, and the step in which an open reports an error
\* leaves the selected file and the text of the editor as they were
C28_SelectionKept ==
  [][/\ selectedFile # NoNode => selectedFile' # NoNode
     /\ \A t \in Pending :
          t.op = "open" /\ Fails(t) =>
            selectedFile' = selectedFile /\ fileContent' = fileContent]_vars

\* the selected file was deleted and a later open has failed: the editor
\* still shows the file, with the text it was opened with
C28_Witness ==
  /\ selectedFile # NoNode
  /\ ~IsFileAt(storage, selectedFile.origin, NodePath(selectedFile))
  /\ message.by.op = "open" /\ IsError(message)
  /\ fileContent = "old"

\* ------------------------------------------------------------------------
\* C29
\* ------------------------------------------------------------------------

\* handler t is selectDirectory or the restore on mount
ChangesHandle(t) == t.op \in {"select", "restore"}

\* C29: selectDirectory and the restore on mount change the active handle
\* and the tree together or not at all.  A picker that is declined and a
\* stored handle that is not reused leave both as they were, and otherwise
\* the handler goes on to enumerate the handle that is active now.  When the
\* enumeration succeeds the tree is replaced by the contents of the active
\* handle; when it fails the tree is left as it was and the handle whose
\* enumeration failed is not the active one
C29_TreeOfActiveHandle ==
  [][\A t \in Pending :
       ChangesHandle(t) =>
         /\ (Pick(t) \/ RestoreGet(t) \/ RestoreQuery(t)) =>
              \/ /\ directoryHandle' = directoryHandle
                 /\ fileSystem' = fileSystem
                 /\ \A u \in Pending' \ Pending : u.pc # "refresh"
              \/ \E u \in Pending' :
                   /\ ChangesHandle(u) /\ u.pc = "refresh"
                   /\ u.root = directoryHandle'
         /\ RefreshFS(t) =>
              IF RootExists(storage, t.root)
                THEN /\ directoryHandle' = t.root
                     /\ fileSystem' = TreeOf(storage, t.root)
                ELSE /\ directoryHandle' # t.root
                     /\ fileSystem' = fileSystem]_vars

====
